---- MODULE Spec2Model ----
(***************************************************************************)
(* Session authentication of the exerciselog backend: AuthService (login,  *)
(* signup, logout, validateUser, verifyUserRefreshToken), the user store   *)
(* it talks to, the JWT signer it calls and the process bootstrap.         *)
(* Every request handler is an async function: it runs atomically between  *)
(* two awaits and interleaves with the other handlers at each await.       *)
(***************************************************************************)
EXTENDS Integers, Sequences, FiniteSets, TLC

\* ------------------------------------------------------------------ bounds
MaxReqs == 2
MaxUsers == 2
MaxNow == 1000
MaxSalt == 1
MaxDrift == 0

\* --------------------------------------------------------------- constants
MsPerSec == 1000
Tick == MsPerSec

Reqs == 1..MaxReqs
Ids == 1..MaxUsers
Salts == 1..MaxSalt
Emails == {"a@x", "b@x"}
Passwords == {"pw1", "pw2"}
SignupPasswords == {"pw1"}
Drifts == 0..MaxDrift

\* phase: the process, "booting" or "serving"; env: process.env; now: the
\* clock in ms; users: the user table by id. Per request slot: pc (where the
\* handler stands), op, arg, locals, response (the calls made on the
\* Response) and result (what the handler returned or threw).
\* History: lastWriter[u] is the slot whose setCookies update was the last
\* write of u's refreshToken (0 after a logout wrote it, or when that slot
\* took a new request); holders is the set of users who were handed cookies.
VARIABLES phase, env, now, users, pc, op, arg, locals, response, result, lastWriter,
          holders

vars == <<phase, env, now, users, pc, op, arg, locals, response, result, lastWriter,
          holders>>

\* ------------------------------------------------------------ environment
Unset == [set |-> FALSE]
EnvVal(v) == [set |-> TRUE, val |-> v]

Env(as, ae, rs, re) ==
  [JWT_ACCESS_TOKEN_SECRET |-> as, JWT_ACCESS_TOKEN_EXPIRATION_MS |-> ae,
   JWT_REFRESH_TOKEN_SECRET |-> rs, JWT_REFRESH_TOKEN_EXPIRATION_MS |-> re]

\* The configurations the process is started with: complete ones (distinct
\* secrets and lifetimes, or the same secret and lifetime twice) and ones
\* with a single variable missing.
Environments ==
  {Env(EnvVal("k1"), EnvVal(1000), EnvVal("k2"), EnvVal(2000)),
   Env(EnvVal("k1"), EnvVal(1000), EnvVal("k1"), EnvVal(1000)),
   Env(Unset, EnvVal(1000), EnvVal("k2"), EnvVal(2000)),
   Env(EnvVal("k1"), Unset, EnvVal("k2"), EnvVal(2000)),
   Env(EnvVal("k1"), EnvVal(1000), Unset, EnvVal(2000)),
   Env(EnvVal("k1"), EnvVal(1000), EnvVal("k2"), Unset)}

EnvComplete(e) ==
  /\ e.JWT_ACCESS_TOKEN_SECRET.set
  /\ e.JWT_ACCESS_TOKEN_EXPIRATION_MS.set
  /\ e.JWT_REFRESH_TOKEN_SECRET.set
  /\ e.JWT_REFRESH_TOKEN_EXPIRATION_MS.set

\* --------------------------------------------------------------- hashing
\* utils/bcrypt: a salted one-way hash and its comparer.
NullHash == [kind |-> "null"]
encrypt(value, salt) == [kind |-> "bcrypt", salt |-> salt, digest |-> value]

compareValueWithHash(value, hash) ==
  IF hash.kind # "bcrypt"
    THEN [threw |-> TRUE, match |-> FALSE]
    ELSE [threw |-> FALSE, match |-> hash = encrypt(value, hash.salt)]

\* ------------------------------------------------------------ JWT signing
NaN == [valid |-> FALSE, time |-> 0]
Date(t) == [valid |-> TRUE, time |-> t]

parseInt(v) == IF v.set THEN [nan |-> FALSE, val |-> v.val] ELSE [nan |-> TRUE, val |-> 0]

DatePlus(t, n) == IF n.nan THEN NaN ELSE Date(t + n.val)

Hmac(secret, body) == [alg |-> "HS256", key |-> secret, over |-> body]

SignFailed == [ok |-> FALSE]

\* jsonwebtoken sign(): iat is the clock in whole seconds, exp = iat + the
\* span in whole seconds; a missing secret or an unparsable span throws.
JwtSign(payload, secret, expiresIn, t) ==
  IF ~secret.set \/ ~expiresIn.set
    THEN SignFailed
    ELSE LET body == [userId |-> payload.userId,
                      iat |-> t \div MsPerSec,
                      exp |-> (t \div MsPerSec) + (expiresIn.val \div MsPerSec)]
         IN [ok |-> TRUE, body |-> body, sig |-> Hmac(secret.val, body)]

\* jsonwebtoken verify(): signature first, then expiry; returns the decoded
\* claims.
JwtVerify(token, secret, t) ==
  IF token.sig # Hmac(secret, token.body)
    THEN [ok |-> FALSE, error |-> "JsonWebTokenError"]
    ELSE IF t \div MsPerSec >= token.body.exp
      THEN [ok |-> FALSE, error |-> "TokenExpiredError"]
      ELSE [ok |-> TRUE, payload |-> token.body]

generateTokens_SwappedLifetimes(userId, e, t1, t2) ==
  LET expireAccessToken == DatePlus(t1, parseInt(e.JWT_REFRESH_TOKEN_EXPIRATION_MS))
      expireRefreshToken == DatePlus(t2, parseInt(e.JWT_ACCESS_TOKEN_EXPIRATION_MS))
      tokenPayload == [userId |-> userId]
      accessToken == JwtSign(tokenPayload, e.JWT_ACCESS_TOKEN_SECRET,
                             e.JWT_ACCESS_TOKEN_EXPIRATION_MS, t2)
      refreshToken == JwtSign(tokenPayload, e.JWT_REFRESH_TOKEN_SECRET,
                              e.JWT_REFRESH_TOKEN_EXPIRATION_MS, t2)
  IN [threw |-> ~accessToken.ok \/ ~refreshToken.ok,
      expireAccessToken |-> expireAccessToken,
      expireRefreshToken |-> expireRefreshToken,
      accessToken |-> accessToken,
      refreshToken |-> refreshToken]

generateTokens_OneSecret(userId, e, t1, t2) ==
  LET expireAccessToken == DatePlus(t1, parseInt(e.JWT_ACCESS_TOKEN_EXPIRATION_MS))
      expireRefreshToken == DatePlus(t2, parseInt(e.JWT_REFRESH_TOKEN_EXPIRATION_MS))
      tokenPayload == [userId |-> userId]
      accessToken == JwtSign(tokenPayload, e.JWT_ACCESS_TOKEN_SECRET,
                             e.JWT_ACCESS_TOKEN_EXPIRATION_MS, t2)
      refreshToken == JwtSign(tokenPayload, e.JWT_ACCESS_TOKEN_SECRET, 
                              e.JWT_REFRESH_TOKEN_EXPIRATION_MS, t2)
  IN [threw |-> ~accessToken.ok \/ ~refreshToken.ok,
      expireAccessToken |-> expireAccessToken,
      expireRefreshToken |-> expireRefreshToken,
      accessToken |-> accessToken,
      refreshToken |-> refreshToken]

\* AuthService.generateTokens; t1 and t2 are the two readings of the clock.
generateTokens(userId, e, t1, t2) ==
  LET expireAccessToken == DatePlus(t1, parseInt(e.JWT_ACCESS_TOKEN_EXPIRATION_MS))
      expireRefreshToken == DatePlus(t2, parseInt(e.JWT_REFRESH_TOKEN_EXPIRATION_MS))
      tokenPayload == [userId |-> userId]
      accessToken == JwtSign(tokenPayload, e.JWT_ACCESS_TOKEN_SECRET,
                             e.JWT_ACCESS_TOKEN_EXPIRATION_MS, t2)
      refreshToken == JwtSign(tokenPayload, e.JWT_REFRESH_TOKEN_SECRET,
                              e.JWT_REFRESH_TOKEN_EXPIRATION_MS, t2)
  IN [threw |-> ~accessToken.ok \/ ~refreshToken.ok,
      expireAccessToken |-> expireAccessToken,
      expireRefreshToken |-> expireRefreshToken,
      accessToken |-> accessToken,
      refreshToken |-> refreshToken]

\* ------------------------------------------------------------- user store
NoUser == [exists |-> FALSE]

UserRecord(id, email, password, refreshToken) ==
  [exists |-> TRUE, id |-> id, email |-> email, password |-> password,
   refreshToken |-> refreshToken]

ExistingIds == {i \in Ids : users[i].exists}

\* UsersService.findOne(email, throwIfMissing)
findOne(email) ==
  LET found == {i \in ExistingIds : users[i].email = email}
  IN IF found = {} THEN NoUser ELSE users[CHOOSE i \in found : TRUE]

\* UsersService.findOneById(id)
findOneById(id) == IF id \in Ids THEN users[id] ELSE NoUser

\* UsersService.update(id, {refreshToken})
update(id, hash) == [users EXCEPT ![id].refreshToken = hash]

\* ------------------------------------------------------------- responses
ACCESS_TOKEN_COOKIE == "Authentication"
REFRESH_TOKEN_COOKIE == "Refresh"

Cookie(name, value, expires) ==
  [call |-> "cookie", name |-> name, value |-> value, httpOnly |-> TRUE,
   secure |-> TRUE, expires |-> expires]

ClearCookie(name) == [call |-> "clearCookie", name |-> name]

Outcome(kind, message, user) == [kind |-> kind, message |-> message, user |-> user]
Pending == Outcome("pending", "", NoUser)
Ok(user) == Outcome("ok", "", user)
Returned == Ok(NoUser)
Unauthorized(message) == Outcome("Unauthorized", message, NoUser)
InternalError(message) == Outcome("Error", message, NoUser)

\* A request's arguments; `at` is the clock when login was called.
NoArg == [userId |-> 0, email |-> "", password |-> "", cookies |-> FALSE, at |-> 0]
NoLocals == [set |-> FALSE]

\* ------------------------------------------------------------------ Init
Init ==
  /\ phase = "booting"
  /\ env \in Environments
  /\ now = 0
  /\ users = [i \in Ids |-> NoUser]
  /\ pc = [r \in Reqs |-> "idle"]
  /\ op = [r \in Reqs |-> "none"]
  /\ arg = [r \in Reqs |-> NoArg]
  /\ locals = [r \in Reqs |-> NoLocals]
  /\ response = [r \in Reqs |-> <<>>]
  /\ result = [r \in Reqs |-> Pending]
  /\ lastWriter = [i \in Ids |-> 0]
  /\ holders = {}

\* main.ts bootstrap(): creates the app and listens; the environment is not
\* inspected.
Bootstrap ==
  /\ phase = "booting"
  /\ phase' = "serving"
  /\ UNCHANGED <<env, now, users, pc, op, arg, locals, response, result,
                 lastWriter>>
  /\ UNCHANGED holders

\* The wall clock advances.
Advance ==
  /\ now + Tick <= MaxNow
  /\ now' = now + Tick
  /\ UNCHANGED <<phase, env, users, pc, op, arg, locals, response, result,
                 lastWriter>>
  /\ UNCHANGED holders

\* ------------------------------------------------------------ token space
\* Every token the signer can have produced up to now under the running
\* configuration, for any user id: what a client may present.
Seconds == 0..(now \div MsPerSec)

Generated ==
  {g \in {generateTokens(u, env, sec * MsPerSec, sec * MsPerSec) :
            u \in Ids, sec \in Seconds} : ~g.threw}

AccessTokens == {g.accessToken : g \in Generated}
RefreshTokens == {g.refreshToken : g \in Generated}
Presentable == AccessTokens \cup RefreshTokens
RefreshTokensOf(u) == {tok \in RefreshTokens : tok.body.userId = u}

\* ---------------------------------------------------------- request slots
\* A slot is free before its first request and after a request has returned
\* or thrown; what the last request left in it stays until the next starts.
Free(r) == pc[r] \in {"idle", "done"}

Forget(r) == [i \in Ids |-> IF lastWriter[i] = r THEN 0 ELSE lastWriter[i]]

\* ---------------------------------------------------------- login, signup
Generate_HashesAccessToken(r, u, d, s) ==
  LET g == generateTokens(u, env, now, now + d)
  IN IF g.threw
       THEN /\ pc' = [pc EXCEPT ![r] = "done"]
            /\ result' = [result EXCEPT ![r] = InternalError("sign failed")]
            /\ locals' = [locals EXCEPT ![r] = NoLocals]
       ELSE /\ pc' = [pc EXCEPT ![r] = "update"]
            /\ result' = [result EXCEPT ![r] = Pending]
            /\ locals' = [locals EXCEPT ![r] =
                 [set |-> TRUE, userId |-> u,
                  accessToken |-> g.accessToken,
                  refreshToken |-> g.refreshToken,
                  expireAccessToken |-> g.expireAccessToken,
                  expireRefreshToken |-> g.expireRefreshToken,
                  hash |-> encrypt(g.accessToken, s)]]

\* generateTokens followed by `await encrypt(refreshToken)`, for request r
\* acting for user u; d is the clock drift between the two Date readings and
\* s the salt bcrypt draws.
Generate(r, u, d, s) ==
  LET g == generateTokens(u, env, now, now + d)
  IN IF g.threw
       THEN /\ pc' = [pc EXCEPT ![r] = "done"]
            /\ result' = [result EXCEPT ![r] = InternalError("sign failed")]
            /\ locals' = [locals EXCEPT ![r] = NoLocals]
       ELSE /\ pc' = [pc EXCEPT ![r] = "update"]
            /\ result' = [result EXCEPT ![r] = Pending]
            /\ locals' = [locals EXCEPT ![r] =
                 [set |-> TRUE, userId |-> u,
                  accessToken |-> g.accessToken,
                  refreshToken |-> g.refreshToken,
                  expireAccessToken |-> g.expireAccessToken,
                  expireRefreshToken |-> g.expireRefreshToken,
                  hash |-> encrypt(g.refreshToken, s)]]

\* AuthService.login up to the store update inside setCookies.
StartLogin(r, u, d, s) ==
  /\ phase = "serving"
  /\ Free(r)
  /\ u \in ExistingIds
  /\ op' = [op EXCEPT ![r] = "login"]
  /\ arg' = [arg EXCEPT ![r] = [NoArg EXCEPT !.userId = u, !.at = now]]
  /\ response' = [response EXCEPT ![r] = <<>>]
  /\ lastWriter' = Forget(r)
  /\ Generate(r, u, d, s)
  /\ UNCHANGED <<phase, env, now, users>>
  /\ UNCHANGED holders

SetCookiesUpdate_FirstWins(r) ==
  /\ pc[r] = "update"
  /\ users' = IF users[locals[r].userId].refreshToken # NullHash
              THEN users
              ELSE update(locals[r].userId, locals[r].hash)
  /\ pc' = [pc EXCEPT ![r] = "cookies"]
  /\ lastWriter' = [lastWriter EXCEPT ![locals[r].userId] = r]
  /\ UNCHANGED <<phase, env, now, op, arg, locals, response, result>>
  /\ UNCHANGED holders

\* setCookies: usersService.update(userId, {refreshToken: hash}) is applied.
SetCookiesUpdate(r) ==
  /\ pc[r] = "update"
  /\ users' = update(locals[r].userId, locals[r].hash)
  /\ pc' = [pc EXCEPT ![r] = "cookies"]
  /\ lastWriter' = [lastWriter EXCEPT ![locals[r].userId] = r]
  /\ UNCHANGED <<phase, env, now, op, arg, locals, response, result>>
  /\ UNCHANGED holders

SetCookiesUpdateFails_CookiesFirst(r) ==
  /\ pc[r] = "update"
  /\ pc' = [pc EXCEPT ![r] = "done"]
  /\ result' = [result EXCEPT ![r] = InternalError("store failed")]
  /\ response' = [response EXCEPT ![r] =
       response[r] \o
         <<Cookie(ACCESS_TOKEN_COOKIE, locals[r].accessToken,
                  locals[r].expireAccessToken),
           Cookie(REFRESH_TOKEN_COOKIE, locals[r].refreshToken,
                  locals[r].expireRefreshToken)>>]
  /\ locals' = [locals EXCEPT ![r] = NoLocals]
  /\ UNCHANGED <<phase, env, now, users, op, arg, lastWriter>>
  /\ UNCHANGED holders

\* setCookies: the store rejects the update and the rejection propagates.
SetCookiesUpdateFails(r) ==
  /\ pc[r] = "update"
  /\ pc' = [pc EXCEPT ![r] = "done"]
  /\ result' = [result EXCEPT ![r] = InternalError("store failed")]
  /\ locals' = [locals EXCEPT ![r] = NoLocals]
  /\ UNCHANGED <<phase, env, now, users, op, arg, response,
                 lastWriter>>
  /\ UNCHANGED holders

setCookiesWrite_RefreshCarriesAccess(resp, l) ==
  resp \o <<Cookie(ACCESS_TOKEN_COOKIE, l.accessToken, l.expireAccessToken),
            Cookie(REFRESH_TOKEN_COOKIE, l.accessToken, l.expireRefreshToken)>>

\* setCookies: the two response.cookie calls after the update resolved.
setCookiesWrite(resp, l) ==
  resp \o <<Cookie(ACCESS_TOKEN_COOKIE, l.accessToken, l.expireAccessToken),
            Cookie(REFRESH_TOKEN_COOKIE, l.refreshToken, l.expireRefreshToken)>>

SetCookiesWrite(r) ==
  /\ pc[r] = "cookies"
  /\ response' = [response EXCEPT ![r] = setCookiesWrite(response[r], locals[r])]
  /\ pc' = [pc EXCEPT ![r] = "done"]
  /\ result' = [result EXCEPT ![r] = Returned]
  /\ locals' = [locals EXCEPT ![r] = NoLocals]
  /\ UNCHANGED <<phase, env, now, users, op, arg, lastWriter>>
  /\ holders' = holders \cup {locals[r].userId}

StartSignup_NoCheck(r, email, password) ==
  /\ phase = "serving"
  /\ Free(r)
  /\ op' = [op EXCEPT ![r] = "signup"]
  /\ arg' = [arg EXCEPT ![r] = [NoArg EXCEPT !.email = email, !.password = password]]
  /\ response' = [response EXCEPT ![r] = <<>>]
  /\ locals' = [locals EXCEPT ![r] = NoLocals]
  /\ lastWriter' = Forget(r)
  /\ IF FALSE
       THEN /\ pc' = [pc EXCEPT ![r] = "done"]
            /\ result' = [result EXCEPT ![r] = Unauthorized("User already exists.")]
       ELSE /\ pc' = [pc EXCEPT ![r] = "create"]
            /\ result' = [result EXCEPT ![r] = Pending]
  /\ UNCHANGED <<phase, env, now, users>>
  /\ UNCHANGED holders

\* AuthService.signup: the lookup by email and the throw when it finds one.
StartSignup(r, email, password) ==
  /\ phase = "serving"
  /\ Free(r)
  /\ op' = [op EXCEPT ![r] = "signup"]
  /\ arg' = [arg EXCEPT ![r] = [NoArg EXCEPT !.email = email, !.password = password]]
  /\ response' = [response EXCEPT ![r] = <<>>]
  /\ locals' = [locals EXCEPT ![r] = NoLocals]
  /\ lastWriter' = Forget(r)
  /\ IF findOne(email).exists
       THEN /\ pc' = [pc EXCEPT ![r] = "done"]
            /\ result' = [result EXCEPT ![r] = Unauthorized("User already exists.")]
       ELSE /\ pc' = [pc EXCEPT ![r] = "create"]
            /\ result' = [result EXCEPT ![r] = Pending]
  /\ UNCHANGED <<phase, env, now, users>>
  /\ UNCHANGED holders

\* UsersService.create under the schema's unique email: a new row with a
\* fresh id, a hashed password and no refresh token.
create(id, email, password, s) ==
  [users EXCEPT ![id] = UserRecord(id, email, encrypt(password, s), NullHash)]

\* The id the store gives a new row (a fresh uuid).
FreshId == CHOOSE i \in Ids \ ExistingIds : \A j \in Ids \ ExistingIds : i <= j

SignupCreate_NoUniqueEmail(r, id, s) ==
  /\ pc[r] = "create"
  /\ Ids \ ExistingIds # {}
  /\ id = FreshId
  /\ users' = create(id, arg[r].email, arg[r].password, s)
  /\ pc' = [pc EXCEPT ![r] = "generate"]
  /\ arg' = [arg EXCEPT ![r].userId = id]
  /\ UNCHANGED <<phase, env, now, op, locals, response, result,
                 lastWriter>>
  /\ UNCHANGED holders

SignupCreate(r, id, s) ==
  /\ pc[r] = "create"
  /\ ~findOne(arg[r].email).exists
  /\ Ids \ ExistingIds # {}
  /\ id = FreshId
  /\ users' = create(id, arg[r].email, arg[r].password, s)
  /\ pc' = [pc EXCEPT ![r] = "generate"]
  /\ arg' = [arg EXCEPT ![r].userId = id]
  /\ UNCHANGED <<phase, env, now, op, locals, response, result,
                 lastWriter>>
  /\ UNCHANGED holders

\* create rejects: the unique constraint or any other store failure.
SignupCreateFails(r) ==
  /\ pc[r] = "create"
  /\ pc' = [pc EXCEPT ![r] = "done"]
  /\ result' = [result EXCEPT ![r] = InternalError("store failed")]
  /\ UNCHANGED <<phase, env, now, users, op, arg, locals, response,
                 lastWriter>>
  /\ UNCHANGED holders

\* signup after create resolved: generateTokens for the new user.
SignupGenerate(r, d, s) ==
  /\ pc[r] = "generate"
  /\ Generate(r, arg[r].userId, d, s)
  /\ UNCHANGED <<phase, env, now, users, op, arg, response,
                 lastWriter>>
  /\ UNCHANGED holders

\* ------------------------------------------------------------------ logout
logoutPatch_KeepsHash(user) == user.refreshToken

\* The fields logout writes to the user's row: {refreshToken: null}.
logoutPatch(user) == NullHash

LogoutUpdate_AllUsers(r, u, c) ==
  /\ phase = "serving"
  /\ Free(r)
  /\ u \in ExistingIds
  /\ u \in holders
  /\ op' = [op EXCEPT ![r] = "logout"]
  /\ arg' = [arg EXCEPT ![r] = [NoArg EXCEPT !.userId = u, !.cookies = c]]
  /\ response' = [response EXCEPT ![r] = <<>>]
  /\ result' = [result EXCEPT ![r] = Pending]
  /\ locals' = [locals EXCEPT ![r] = NoLocals]
  /\ users' = [i \in Ids |->
                 IF users[i].exists
                   THEN [users[i] EXCEPT !.refreshToken = logoutPatch(users[i])]
                   ELSE users[i]]
  /\ pc' = [pc EXCEPT ![r] = "clear"]
  /\ lastWriter' = [i \in Ids |-> IF i = u THEN 0 ELSE Forget(r)[i]]
  /\ UNCHANGED <<phase, env, now>>
  /\ UNCHANGED holders

\* AuthService.logout: usersService.update(user.id, {refreshToken: null});
\* c tells whether the request came with the two cookies. The route is
\* behind the JWT guard, so the caller is a user who was handed cookies.
LogoutUpdate(r, u, c) ==
  /\ phase = "serving"
  /\ Free(r)
  /\ u \in ExistingIds
  /\ u \in holders
  /\ op' = [op EXCEPT ![r] = "logout"]
  /\ arg' = [arg EXCEPT ![r] = [NoArg EXCEPT !.userId = u, !.cookies = c]]
  /\ response' = [response EXCEPT ![r] = <<>>]
  /\ result' = [result EXCEPT ![r] = Pending]
  /\ locals' = [locals EXCEPT ![r] = NoLocals]
  /\ users' = update(u, logoutPatch(users[u]))
  /\ pc' = [pc EXCEPT ![r] = "clear"]
  /\ lastWriter' = [i \in Ids |-> IF i = u THEN 0 ELSE Forget(r)[i]]
  /\ UNCHANGED <<phase, env, now>>
  /\ UNCHANGED holders

LogoutUpdateFails(r, u, c) ==
  /\ phase = "serving"
  /\ Free(r)
  /\ u \in ExistingIds
  /\ u \in holders
  /\ op' = [op EXCEPT ![r] = "logout"]
  /\ arg' = [arg EXCEPT ![r] = [NoArg EXCEPT !.userId = u, !.cookies = c]]
  /\ response' = [response EXCEPT ![r] = <<>>]
  /\ locals' = [locals EXCEPT ![r] = NoLocals]
  /\ pc' = [pc EXCEPT ![r] = "done"]
  /\ result' = [result EXCEPT ![r] = InternalError("store failed")]
  /\ lastWriter' = Forget(r)
  /\ UNCHANGED <<phase, env, now, users>>
  /\ UNCHANGED holders

clearCookies_OnlyIfPresent(resp, hadCookies) ==
  IF hadCookies
    THEN resp \o <<ClearCookie(REFRESH_TOKEN_COOKIE), ClearCookie(ACCESS_TOKEN_COOKIE)>>
    ELSE resp

\* AuthService.clearCookies, after the update resolved.
clearCookies(resp, hadCookies) ==
  resp \o <<ClearCookie(REFRESH_TOKEN_COOKIE), ClearCookie(ACCESS_TOKEN_COOKIE)>>

LogoutClear(r) ==
  /\ pc[r] = "clear"
  /\ response' = [response EXCEPT ![r] = clearCookies(response[r], arg[r].cookies)]
  /\ pc' = [pc EXCEPT ![r] = "done"]
  /\ result' = [result EXCEPT ![r] = Returned]
  /\ UNCHANGED <<phase, env, now, users, op, arg, locals, lastWriter>>
  /\ UNCHANGED holders

\* ------------------------------------------------------------ verification
\* The try block of validateUser.
validateUserTry(email, password) ==
  LET user == findOne(email)
  IN IF ~user.exists
       THEN [threw |-> TRUE, error |-> Outcome("NotFound", "User not found", NoUser)]
       ELSE LET isAuthorized == compareValueWithHash(password, user.password)
            IN IF isAuthorized.threw
                 THEN [threw |-> TRUE, error |-> InternalError("compare failed")]
                 ELSE IF ~isAuthorized.match
                   THEN [threw |-> TRUE, error |-> Unauthorized("Unauthorized")]
                   ELSE [threw |-> FALSE, user |-> user]

validateUser_NoCatch(email, password) ==
  LET try == validateUserTry(email, password)
  IN IF try.threw THEN try.error ELSE Ok(try.user)

validateUser(email, password) ==
  LET try == validateUserTry(email, password)
  IN IF try.threw THEN Unauthorized("Credentials are not valid.") ELSE Ok(try.user)

verifyUserRefreshTokenTry_IgnoresCompare(refreshToken, userId) ==
  LET user == findOneById(userId)
  IN IF ~user.exists
       THEN [threw |-> TRUE, error |-> Outcome("NotFound", "User not found", NoUser)]
       ELSE LET authenticated == compareValueWithHash(refreshToken, user.refreshToken)
            IN IF authenticated.threw
                 THEN [threw |-> TRUE, error |-> InternalError("compare failed")]
                 ELSE [threw |-> FALSE, user |-> user]

\* The try block of verifyUserRefreshToken.
verifyUserRefreshTokenTry(refreshToken, userId) ==
  LET user == findOneById(userId)
  IN IF ~user.exists
       THEN [threw |-> TRUE, error |-> Outcome("NotFound", "User not found", NoUser)]
       ELSE LET authenticated == compareValueWithHash(refreshToken, user.refreshToken)
            IN IF authenticated.threw
                 THEN [threw |-> TRUE, error |-> InternalError("compare failed")]
                 ELSE IF ~authenticated.match
                   THEN [threw |-> TRUE, error |-> Unauthorized("Unauthorized")]
                   ELSE [threw |-> FALSE, user |-> user]

verifyUserRefreshToken_NoCatch(refreshToken, userId) ==
  LET try == verifyUserRefreshTokenTry(refreshToken, userId)
  IN IF try.threw THEN try.error ELSE Ok(try.user)

verifyUserRefreshToken(refreshToken, userId) ==
  LET try == verifyUserRefreshTokenTry(refreshToken, userId)
  IN IF try.threw THEN Unauthorized("Refresh token is not valid.") ELSE Ok(try.user)

ValidateUser(r, email, password) ==
  /\ phase = "serving"
  /\ Free(r)
  /\ op' = [op EXCEPT ![r] = "validateUser"]
  /\ arg' = [arg EXCEPT ![r] = NoArg]
  /\ locals' = [locals EXCEPT ![r] = NoLocals]
  /\ response' = [response EXCEPT ![r] = <<>>]
  /\ pc' = [pc EXCEPT ![r] = "done"]
  /\ result' = [result EXCEPT ![r] = validateUser(email, password)]
  /\ lastWriter' = Forget(r)
  /\ UNCHANGED <<phase, env, now, users>>
  /\ UNCHANGED holders

VerifyUserRefreshToken_ConsumesToken(r, t, u) ==
  /\ phase = "serving"
  /\ Free(r)
  /\ op' = [op EXCEPT ![r] = "verifyUserRefreshToken"]
  /\ arg' = [arg EXCEPT ![r] = NoArg]
  /\ locals' = [locals EXCEPT ![r] = NoLocals]
  /\ response' = [response EXCEPT ![r] = <<>>]
  /\ pc' = [pc EXCEPT ![r] = "done"]
  /\ result' = [result EXCEPT ![r] = verifyUserRefreshToken(t, u)]
  /\ lastWriter' = Forget(r)
  /\ users' = IF verifyUserRefreshToken(t, u).kind = "ok"
              THEN update(u, NullHash)
              ELSE users
  /\ UNCHANGED <<phase, env, now>>
  /\ UNCHANGED holders

VerifyUserRefreshToken(r, t, u) ==
  /\ phase = "serving"
  /\ Free(r)
  /\ op' = [op EXCEPT ![r] = "verifyUserRefreshToken"]
  /\ arg' = [arg EXCEPT ![r] = NoArg]
  /\ locals' = [locals EXCEPT ![r] = NoLocals]
  /\ response' = [response EXCEPT ![r] = <<>>]
  /\ pc' = [pc EXCEPT ![r] = "done"]
  /\ result' = [result EXCEPT ![r] = verifyUserRefreshToken(t, u)]
  /\ lastWriter' = Forget(r)
  /\ UNCHANGED <<phase, env, now, users>>
  /\ UNCHANGED holders

Next ==
  \/ Bootstrap
  \/ Advance
  \/ \E r \in Reqs, u \in Ids, d \in Drifts, s \in Salts : StartLogin(r, u, d, s)
  \/ \E r \in Reqs : SetCookiesUpdate(r)
  \/ \E r \in Reqs : SetCookiesUpdateFails(r)
  \/ \E r \in Reqs : SetCookiesWrite(r)
  \/ \E r \in Reqs, e \in Emails, p \in SignupPasswords : StartSignup(r, e, p)
  \/ \E r \in Reqs, i \in Ids, s \in Salts : SignupCreate(r, i, s)
  \/ \E r \in Reqs : SignupCreateFails(r)
  \/ \E r \in Reqs, d \in Drifts, s \in Salts : SignupGenerate(r, d, s)
  \/ \E r \in Reqs, u \in Ids, c \in BOOLEAN : LogoutUpdate(r, u, c)
  \/ \E r \in Reqs, u \in Ids, c \in BOOLEAN : LogoutUpdateFails(r, u, c)
  \/ \E r \in Reqs : LogoutClear(r)
  \/ \E r \in Reqs, e \in Emails, p \in Passwords : ValidateUser(r, e, p)
  \/ \E r \in Reqs, t \in Presentable, u \in Ids : VerifyUserRefreshToken(r, t, u)

Spec == Init /\ [][Next]_vars
\* ============================================================= properties
RefreshTokenNotValid == Unauthorized("Refresh token is not valid.")

\* The Refresh and Authentication cookie values a finished login or signup
\* wrote to its response.
Succeeded(r, o) == op[r] = o /\ pc[r] = "done" /\ result[r] = Returned
AccessCookie(r) == response[r][1]
RefreshCookie(r) == response[r][2]

\* The presented token is the one the stored hash was computed from.
MatchesStored(t, u) ==
  /\ users[u].refreshToken.kind = "bcrypt"
  /\ users[u].refreshToken.digest = t

\* C1: for every user id and every presented token, verifyUserRefreshToken
\* returns the user's record exactly when the user exists, has a stored
\* hash and the token matches it; every other case is the Unauthorized
\* "Refresh token is not valid."; a token signed for one user never
\* verifies under another user's id.
C1_VerifyIffStoredMatch ==
  \A u \in Ids \cup {0} : \A t \in Presentable :
    LET res == verifyUserRefreshToken(t, u)
        good == /\ u \in ExistingIds
                /\ users[u].refreshToken # NullHash
                /\ MatchesStored(t, u)
    IN /\ good => res = Ok(users[u])
       /\ ~good => res = RefreshTokenNotValid
       /\ t.body.userId # u => res = RefreshTokenNotValid

\* A verification succeeded while another user holds a session too.
C1_Witness ==
  \E r \in Reqs :
    /\ op[r] = "verifyUserRefreshToken" /\ pc[r] = "done" /\ result[r].kind = "ok"
    /\ \E v \in ExistingIds :
         v # result[r].user.id /\ users[v].refreshToken # NullHash

\* C2 as stated: at the moment logout(u) completes, the stored hash of u is
\* null.
C2_NullWhenLogoutCompletes ==
  [][\A r \in Reqs :
       (op[r] = "logout" /\ pc[r] = "clear" /\ pc'[r] = "done")
         => users'[arg[r].userId].refreshToken = NullHash]_vars

\* Every token is refused for every user whose stored hash is null.
NullRefusesAll ==
  \A u \in ExistingIds :
    users[u].refreshToken = NullHash =>
      \A t \in Presentable : verifyUserRefreshToken(t, u) = RefreshTokenNotValid

\* C2, amended: the store update of logout(u) leaves the stored hash of u
\* null; a null hash becomes non-null only by the store write of a login or
\* signup for u; and while it is null every token is refused for u.
C2_RevokedUntilNextWrite ==
  /\ []NullRefusesAll
  /\ [][/\ \A r \in Reqs :
            (Free(r) /\ op'[r] = "logout" /\ pc'[r] = "clear")
              => users'[arg'[r].userId].refreshToken = NullHash
        /\ \A u \in ExistingIds :
            (users[u].refreshToken = NullHash /\ users'[u].refreshToken # NullHash)
              => \E r \in Reqs :
                   /\ op[r] \in {"login", "signup"}
                   /\ pc[r] = "update" /\ pc'[r] = "cookies"
                   /\ locals[r].userId = u]_vars

\* A logout returned for a user to whom a login had handed a refresh
\* token, and the stored hash is null.
C2_Witness ==
  \E r1, r2 \in Reqs :
    /\ Succeeded(r1, "logout") /\ Succeeded(r2, "login")
    /\ arg[r1].userId = arg[r2].userId
    /\ users[arg[r1].userId].refreshToken = NullHash
    /\ verifyUserRefreshToken(RefreshCookie(r2).value, arg[r1].userId) = RefreshTokenNotValid

\* C3: of all the refresh tokens signed for a user, at most one is accepted
\* by verifyUserRefreshToken for that user.
C3_AtMostOneActive ==
  \A u \in Ids :
    Cardinality({t \in RefreshTokensOf(u) :
                   verifyUserRefreshToken(t, u).kind = "ok"}) <= 1

\* Two logins handed one user two different refresh tokens; one of them is
\* accepted and the other is not.
C3_Witness ==
  \E r1, r2 \in Reqs :
    /\ Succeeded(r1, "login") /\ Succeeded(r2, "login")
    /\ arg[r1].userId = arg[r2].userId
    /\ RefreshCookie(r1).value # RefreshCookie(r2).value
    /\ verifyUserRefreshToken(RefreshCookie(r1).value, arg[r1].userId).kind = "ok"
    /\ verifyUserRefreshToken(RefreshCookie(r2).value, arg[r1].userId) = RefreshTokenNotValid

\* C4 as stated: once the logins of one user have all returned, the stored
\* hash is that of the token of the login whose store update was applied
\* last, that token is accepted, and the refresh token in the cookies of
\* every other login is refused.
C4_EveryOtherLoginRefused ==
  \A r1, r2 \in Reqs :
    (/\ r1 # r2
     /\ Succeeded(r1, "login") /\ Succeeded(r2, "login")
     /\ arg[r1].userId = arg[r2].userId
     /\ lastWriter[arg[r1].userId] = r1)
    => /\ MatchesStored(RefreshCookie(r1).value, arg[r1].userId)
       /\ verifyUserRefreshToken(RefreshCookie(r1).value, arg[r1].userId).kind = "ok"
       /\ verifyUserRefreshToken(RefreshCookie(r2).value, arg[r1].userId)
            = RefreshTokenNotValid

\* C4, amended: as stated, except that the other login's refresh token is
\* refused only when it is a different token: two logins of one user in the
\* same clock second are handed the same token.
C4_LastWriteWins ==
  \A r1, r2 \in Reqs :
    (/\ r1 # r2
     /\ Succeeded(r1, "login") /\ Succeeded(r2, "login")
     /\ arg[r1].userId = arg[r2].userId
     /\ lastWriter[arg[r1].userId] = r1)
    => /\ MatchesStored(RefreshCookie(r1).value, arg[r1].userId)
       /\ verifyUserRefreshToken(RefreshCookie(r1).value, arg[r1].userId).kind = "ok"
       /\ RefreshCookie(r2).value # RefreshCookie(r1).value
            => verifyUserRefreshToken(RefreshCookie(r2).value, arg[r1].userId)
                 = RefreshTokenNotValid

\* Two logins of one user interleaved: the one that generated its token
\* first wrote the store last, and both have returned.
C4_Witness ==
  \E r1, r2 \in Reqs :
    /\ Succeeded(r1, "login") /\ Succeeded(r2, "login")
    /\ arg[r1].userId = arg[r2].userId
    /\ lastWriter[arg[r1].userId] = r1
    /\ RefreshCookie(r1).value.body.iat < RefreshCookie(r2).value.body.iat

\* Slot r takes a new call of operation o in this step.
Called(r, o) ==
  /\ Free(r)
  /\ op'[r] = o
  /\ <<pc[r], op[r], arg[r], result[r], response[r]>>
       # <<pc'[r], op'[r], arg'[r], result'[r], response'[r]>>

\* C5: a signup called with an email the store already holds throws the
\* Unauthorized "User already exists.", creates and changes no user record
\* and leaves its response without any cookie.
C5_DuplicateSignupRejected ==
  /\ [](\A r \in Reqs :
          (op[r] = "signup" /\ pc[r] = "done"
             /\ result[r] = Unauthorized("User already exists."))
            => response[r] = <<>>)
  /\ [][\A r \in Reqs :
          (Called(r, "signup") /\ findOne(arg'[r].email).exists)
            => /\ pc'[r] = "done"
               /\ result'[r] = Unauthorized("User already exists.")
               /\ users' = users
               /\ response'[r] = <<>>]_vars

\* A signup was refused for an email whose user holds a session.
C5_Witness ==
  \E r \in Reqs :
    /\ op[r] = "signup" /\ pc[r] = "done"
    /\ result[r] = Unauthorized("User already exists.")
    /\ findOne(arg[r].email).exists
    /\ findOne(arg[r].email).refreshToken # NullHash

CredentialsNotValid == Unauthorized("Credentials are not valid.")

\* The stored password hash was computed from this password.
PasswordOf(user, password) ==
  user.password.kind = "bcrypt" /\ user.password.digest = password

\* C6: validateUser returns the user record exactly when a user with the
\* email exists and the password is the one that was hashed; every failure,
\* unknown email (the lookup throws) or wrong password, is the same
\* Unauthorized "Credentials are not valid.".
C6_ValidateUserGeneric ==
  \A e \in Emails \cup {"nobody@x"} : \A p \in Passwords :
    LET res == validateUser(e, p)
        known == \E u \in ExistingIds : users[u].email = e /\ PasswordOf(users[u], p)
    IN /\ known => res.kind = "ok" /\ res.user.email = e /\ res.user \in {users[u] : u \in ExistingIds}
       /\ ~known => res = CredentialsNotValid

\* A validateUser call failed while the store holds one email and lacks
\* another, so both failure cases are present.
C6_Witness ==
  \E r \in Reqs :
    /\ op[r] = "validateUser" /\ pc[r] = "done" /\ result[r] = CredentialsNotValid
    /\ \E e1, e2 \in Emails : findOne(e1).exists /\ ~findOne(e2).exists

C8_FailsFastAtStartup == ~EnvComplete(env) => phase # "serving"

BothRemovals == <<ClearCookie("Refresh"), ClearCookie("Authentication")>>

ForeignSecrets == {"k1", "k2", "k3"}

RoundTrip(t, own) ==
  /\ IF now \div MsPerSec < t.body.exp
       THEN /\ JwtVerify(t, own, now).ok
            /\ JwtVerify(t, own, now).payload.userId = t.body.userId
            /\ JwtVerify(t, own, now).payload = t.body
       ELSE ~JwtVerify(t, own, now).ok
  /\ \A other \in ForeignSecrets \ {own} : ~JwtVerify(t, other, now).ok

NullOrHash(u) == users[u].refreshToken.kind \in {"null", "bcrypt"}

HashOfOwnRefreshToken(u) ==
  users[u].refreshToken.kind = "bcrypt"
    => /\ users[u].refreshToken.digest \in RefreshTokensOf(u)
       /\ users[u].refreshToken \notin Presentable

\* A step that stores a hash for u is the store update of a login or signup
\* acting for u, and stores the hash of the refresh token that request
\* generated.
StoredByLoginOrSignup ==
  \A u \in Ids :
    (users'[u].exists /\ users'[u].refreshToken # NullHash
       /\ users'[u] # users[u])
      => \E r \in Reqs :
           /\ op[r] \in {"login", "signup"}
           /\ pc[r] = "update" /\ pc'[r] = "cookies"
           /\ arg[r].userId = u /\ locals[r].userId = u
           /\ locals[r].refreshToken \in RefreshTokensOf(u)
           /\ \E s \in Salts :
                users'[u].refreshToken = encrypt(locals[r].refreshToken, s)

SameSigning(e) ==
  /\ e.JWT_ACCESS_TOKEN_SECRET = e.JWT_REFRESH_TOKEN_SECRET
  /\ e.JWT_ACCESS_TOKEN_EXPIRATION_MS.val \div MsPerSec
       = e.JWT_REFRESH_TOKEN_EXPIRATION_MS.val \div MsPerSec

C12_LoginCookieVerifies ==
  \A r \in Reqs :
    (Succeeded(r, "login") /\ lastWriter[arg[r].userId] = r)
      => /\ RefreshCookie(r).name = REFRESH_TOKEN_COOKIE
         /\ MatchesStored(RefreshCookie(r).value, arg[r].userId)
         /\ verifyUserRefreshToken(RefreshCookie(r).value, arg[r].userId)
              = Ok(users[arg[r].userId])
         /\ users[arg[r].userId].id = arg[r].userId

\* A login returned and, later on the clock, a verifyUserRefreshToken call
\* in another slot returned the user of that login while the login's write
\* was still the last one.
C12_Witness ==
  \E r1, r2 \in Reqs :
    /\ Succeeded(r1, "login")
    /\ lastWriter[arg[r1].userId] = r1
    /\ now > arg[r1].at
    /\ op[r2] = "verifyUserRefreshToken"
    /\ result[r2] = Ok(users[arg[r1].userId])
    /\ verifyUserRefreshToken(RefreshCookie(r1).value, arg[r1].userId) = result[r2]

StoreFailed == InternalError("store failed")

\* C13: in login and signup the store update precedes both cookie writes: a
\* response receives cookies only in the step after that request's own
\* update of the stored hash was applied, both cookies together; when the
\* update fails the request ends with the store's failure, the store is
\* unchanged and the response has neither cookie.
C13_StoreBeforeCookies ==
  /\ [](\A r \in Reqs :
          op[r] \in {"login", "signup"}
            => /\ response[r] # <<>>
                    => /\ Succeeded(r, op[r])
                       /\ Len(response[r]) = 2
                       /\ AccessCookie(r).name = ACCESS_TOKEN_COOKIE
                       /\ RefreshCookie(r).name = REFRESH_TOKEN_COOKIE
               /\ (pc[r] = "done" /\ result[r] = StoreFailed)
                    => response[r] = <<>>)
  /\ [][\A r \in Reqs :
          /\ (op'[r] \in {"login", "signup"} /\ response'[r] # <<>>
                /\ response'[r] # response[r])
               => (pc[r] = "cookies" /\ op'[r] = op[r])
          /\ (pc'[r] = "cookies" /\ pc[r] # "cookies")
               => /\ pc[r] = "update"
                  /\ response[r] = <<>> /\ response'[r] = <<>>
                  /\ locals'[r] = locals[r]
                  /\ users'[locals[r].userId].refreshToken = locals[r].hash
                  /\ encrypt(locals[r].refreshToken, locals[r].hash.salt)
                       = locals[r].hash
          /\ (pc[r] = "update" /\ pc'[r] # "cookies" /\ pc'[r] # pc[r])
               => /\ pc'[r] = "done" /\ result'[r] = StoreFailed
                  /\ response'[r] = <<>>
                  /\ users' = users]_vars

\* A login ended with the store's failure and an empty response, and the
\* hash stored by the user's signup is still in place.
C13_Witness ==
  \E r1, r2 \in Reqs :
    /\ op[r1] = "login" /\ pc[r1] = "done" /\ result[r1] = StoreFailed
    /\ response[r1] = <<>>
    /\ Succeeded(r2, "signup")
    /\ arg[r2].userId = arg[r1].userId
    /\ MatchesStored(RefreshCookie(r2).value, arg[r1].userId)

\* This step applies the store write of a login or signup for u, or the one
\* of a logout of u.
WritesStoreFor(u) ==
  \E r \in Reqs :
    \/ /\ op[r] \in {"login", "signup"}
       /\ pc[r] = "update" /\ pc'[r] = "cookies"
       /\ locals[r].userId = u
    \/ /\ Called(r, "logout")
       /\ pc'[r] = "clear"
       /\ arg'[r].userId = u

\* The tokens verifyUserRefreshToken accepts for u: the hashed one, if any.
Accepted(u) ==
  IF users[u].refreshToken.kind = "bcrypt"
    THEN {t \in {users[u].refreshToken.digest} :
            verifyUserRefreshToken(t, u).kind = "ok"}
    ELSE {}

\* C14: a validateUser or verifyUserRefreshToken call, whatever it returns
\* or throws, leaves the user table and every other request's response as
\* they were and writes nothing to its own response; and a token accepted
\* for a user is still accepted after every step that changes the user
\* table and is not the store write of a login, signup or logout for that
\* user (verification reads nothing but the table, so a step that leaves
\* the table alone leaves its answer alone).
C14_ReadOnlyChecks ==
  /\ [][\A r \in Reqs :
          (Called(r, "validateUser") \/ Called(r, "verifyUserRefreshToken"))
            => /\ users' = users
               /\ response'[r] = <<>>
               /\ \A q \in Reqs \ {r} : response'[q] = response[q]]_vars
  /\ [][users' # users
          => \A u \in ExistingIds :
               (Accepted(u) # {} /\ ~WritesStoreFor(u))
                 => /\ users'[u] = users[u]
                    /\ \A t \in Accepted(u) :
                         verifyUserRefreshToken(t, u)'
                           = verifyUserRefreshToken(t, u)]_vars

\* A verifyUserRefreshToken call succeeded and a validateUser call failed,
\* and the token that was accepted is still the one the store holds.
C14_Witness ==
  \E r1, r2 \in Reqs :
    /\ op[r1] = "verifyUserRefreshToken" /\ pc[r1] = "done"
    /\ result[r1].kind = "ok"
    /\ users[result[r1].user.id] = result[r1].user
    /\ op[r2] = "validateUser" /\ pc[r2] = "done"
    /\ result[r2] = CredentialsNotValid

\* This step is the create of a signup and the new record is u's.
CreatesUser(u) ==
  \E r \in Reqs :
    /\ op[r] = "signup"
    /\ pc[r] = "create" /\ pc'[r] = "generate"
    /\ arg'[r].userId = u

\* C15: every step that changes the user table is the store write of a
\* login, signup or logout for one user u (or the create of the signup
\* creating u), and for every other user v the record, with its stored
\* hash, is the same after the step as before it, and so is the set of
\* tokens accepted for v: no session of v is invalidated or created.
C15_OtherUsersUntouched ==
  [][users' # users
       => /\ \E u \in Ids : WritesStoreFor(u) \/ CreatesUser(u)
          /\ \A u \in Ids :
               (WritesStoreFor(u) \/ CreatesUser(u))
                 => \A v \in Ids \ {u} :
                      /\ users'[v] = users[v]
                      /\ users[v].exists => Accepted(v)' = Accepted(v)]_vars

\* One user logged out, the stored hash is null, and another user's signup
\* token is still the one the store accepts.
C15_Witness ==
  \E r1, r2 \in Reqs :
    /\ Succeeded(r1, "logout") /\ Succeeded(r2, "signup")
    /\ arg[r1].userId # arg[r2].userId
    /\ users[arg[r1].userId].refreshToken = NullHash
    /\ Accepted(arg[r2].userId) = {RefreshCookie(r2).value}

WithEmail(e) == {i \in ExistingIds : users[i].email = e}

\* C16: whatever the interleaving of signups carrying one email, the store
\* holds at most one user record with that email and at most one of those
\* signups has cookies in its response; a signup that passed the lookup and
\* reaches the create after another one created the email ends with the
\* store's failure, no record and no cookie.
C16_OneSignupPerEmail ==
  /\ [](/\ \A e \in Emails : Cardinality(WithEmail(e)) <= 1
        /\ \A r1, r2 \in Reqs :
             (/\ r1 # r2
              /\ op[r1] = "signup" /\ op[r2] = "signup"
              /\ arg[r1].email = arg[r2].email)
               => (response[r1] = <<>> \/ response[r2] = <<>>))
  /\ [][\A r \in Reqs :
          (/\ op[r] = "signup" /\ pc[r] = "create" /\ pc'[r] # pc[r]
           /\ findOne(arg[r].email).exists)
            => /\ pc'[r] = "done"
               /\ result'[r] = InternalError("store failed")
               /\ response'[r] = <<>>
               /\ users' = users]_vars

\* Two signups with one email both passed the lookup; one created the
\* user and wrote its cookies, the other is still before its create.
C16_Witness ==
  \E r1, r2 \in Reqs :
    /\ Succeeded(r1, "signup")
    /\ op[r2] = "signup" /\ pc[r2] = "create"
    /\ arg[r2].email = arg[r1].email
    /\ WithEmail(arg[r1].email) = {arg[r1].userId}
    /\ Len(response[r1]) = 2
====
